---- MODULE Spec2Model ----
(***************************************************************************)
(* proptools: StatefulPropertyBase and its three subclasses LazyProperty,  *)
(* TypedProperty and SetOnceProperty (src/proptools.py).                   *)
(*                                                                         *)
(* The declaring class is the class C of the module docstring:             *)
(*     score    = TypedProperty(int)                                       *)
(*     name     = SetOnceProperty()                                        *)
(*     title    = SetOnceProperty(default='Ms.')                           *)
(*     greeting = LazyProperty(maker)                                      *)
(* Its instances are plain objects (identity hash and equality), so the    *)
(* WeakKeyDictionary of a property holds one entry per live instance.      *)
(* The maker is the one of LazyPropertyTests.setUp: it increments a shared *)
(* counter and returns it, so a second invocation never yields the value   *)
(* of the first; in addition a maker, being caller code, may raise.        *)
(***************************************************************************)
EXTENDS Integers, FiniteSets, Sequences, TLC

VARIABLES
    alive,      \* the instances of C that have not been reclaimed
    values,     \* values[s][i]: the entry of property s's _values for i
    foocount,   \* the counter the maker increments (testcase.foocount)
    calls,      \* calls[i]: how many times the maker was invoked with i
    result      \* the last operation and its outcome (return or raise)

vars == <<alive, values, foocount, calls, result>>

----------------------------------------------------------------------------
(* Bounds *)

\* payloads 1..MaxVal of each type that client code assigns
MaxVal == 1
\* the maker is invoked at most MaxCalls times in a behaviour
MaxCalls == 3

----------------------------------------------------------------------------
(* Python values *)

Instances == {"obj1", "obj2"}

\* the `instance` argument of __get__ when the attribute is read on the class
NoInstance == "None"

Types == {"int", "bool", "str"}

\* the classes a type is a subclass of, itself included (bool subclasses int)
Mro(t) ==
    CASE t = "bool" -> {"bool", "int", "object"}
      [] OTHER -> {t, "object"}

\* isinstance(value, type)
IsInstance(value, type) == type \in Mro(value.type)

\* the values client code assigns
Values == [type : Types, v : 1..MaxVal]

\* the value None
None == [type |-> "NoneType", v |-> 0]

\* no entry for the key: a lookup raises KeyError
Missing == [type |-> "<KeyError>", v |-> 0]

\* SetOnceProperty._NoDefault
NoDefault == [type |-> "<_NoDefault>", v |-> 0]

\* the property object itself, as returned to a read on the class
Self(cls) == [type |-> cls, v |-> 0]

\* type(instance).__name__ of an instance of C, and type(value) of a value
TypeName(instance) == [type |-> "C", v |-> 0]
TypeOf(value) == [type |-> value.type, v |-> 0]

----------------------------------------------------------------------------
(* The class C *)

LazySlots == {"greeting"}
TypedSlots == {"score"}
OnceSlots == {"name", "title"}
Slots == LazySlots \cup TypedSlots \cup OnceSlots

\* the class of each property object
ClassOf(s) ==
    CASE s \in LazySlots -> "LazyProperty"
      [] s \in TypedSlots -> "TypedProperty"
      [] OTHER -> "SetOnceProperty"

\* TypedProperty.type of score
SlotType(s) == "int"

\* SetOnceProperty._default of name and of title
Default(s) == IF s = "title" THEN [type |-> "str", v |-> 1] ELSE NoDefault

----------------------------------------------------------------------------
(* Outcomes of a call: a returned value or a raised exception *)

Return(value) == [kind |-> "return", exc |-> "", msg |-> "", value |-> value]

Raise(exc, msg, value) == [kind |-> "raise", exc |-> exc, msg |-> msg, value |-> value]

\* AttributeError('{!r} object has no such attribute.')
NoSuchAttribute(instance) ==
    Raise("AttributeError", "object has no such attribute", TypeName(instance))

\* AttributeError('SetOnceProperty already set to: {!r}')
AlreadySet(value) == Raise("AttributeError", "SetOnceProperty already set to", value)

\* TypeError('Property values must be instances of {!r}; not {!r}')
TypeMismatch(type, value) ==
    Raise("TypeError", "Property values must be instances of " \o type, TypeOf(value))

\* property.__set__ and property.__delete__ of the builtin with no fset, fdel
NotWritable == Raise("AttributeError", "can't set attribute", None)
NotDeletable == Raise("AttributeError", "can't delete attribute", None)

\* whatever exception the maker raises
MakerError == Raise("Exception", "raised by maker", None)

----------------------------------------------------------------------------
(* The dictionary _values of one property: instance -> value or Missing *)

EmptyDict == [i \in Instances |-> Missing]

\* one value for the property instead of one for each instance
SetItem_EveryKey(d, instance, value) == [k \in DOMAIN d |-> value]

SetItem(d, instance, value) == [d EXCEPT ![instance] = value]

DelItem(d, instance) == [d EXCEPT ![instance] = Missing]

----------------------------------------------------------------------------
(* What a method call does: the dictionary afterwards, the outcome, and how  *)
(* many times it invoked the maker.                                          *)

Done(d, out, made) == [d |-> d, out |-> out, made |-> made]

\* maker(instance) of LazyPropertyTests.setUp: foocount += 1; return foocount.
\* ok = FALSE is a maker that raises after it was entered.
Maker(count, ok) ==
    IF ok THEN Return([type |-> "int", v |-> count + 1]) ELSE MakerError

\* StatefulPropertyBase._handleMissingValue that returns None instead of raising
StatefulPropertyBase_handleMissingValue_ReturnsNone(d, instance) ==
    Done(d, Return(None), 0)

\* StatefulPropertyBase._handleMissingValue
StatefulPropertyBase_handleMissingValue(d, instance) ==
    Done(d, NoSuchAttribute(instance), 0)

\* LazyProperty._handleMissingValue without the store into _values
LazyProperty_handleMissingValue_NoStore(d, instance, count, ok) ==
    LET value == Maker(count, ok)
    IN  IF value.kind = "raise" THEN Done(d, value, 1) ELSE Done(d, Return(value.value), 1)

\* LazyProperty._handleMissingValue that catches the maker's exception, caches
\* None and raises again
LazyProperty_handleMissingValue_CachesFailure(d, instance, count, ok) ==
    LET value == Maker(count, ok)
    IN  IF value.kind = "raise"
        THEN Done(SetItem(d, instance, None), value, 1)
        ELSE Done(SetItem(d, instance, value.value), Return(value.value), 1)

\* LazyProperty._handleMissingValue: a raise of the maker leaves before the store
LazyProperty_handleMissingValue(d, instance, count, ok) ==
    LET value == Maker(count, ok)
    IN  IF value.kind = "raise"
        THEN Done(d, value, 1)
        ELSE Done(SetItem(d, instance, value.value), Return(value.value), 1)

\* SetOnceProperty._handleMissingValue that caches the default it returns
SetOnceProperty_handleMissingValue_StoreDefault(d, default, instance) ==
    IF default = NoDefault
    THEN StatefulPropertyBase_handleMissingValue(d, instance)
    ELSE Done(SetItem(d, instance, default), Return(default), 0)

\* SetOnceProperty._handleMissingValue that returns _default without the test
\* for the sentinel
SetOnceProperty_handleMissingValue_NoTest(d, default, instance) ==
    Done(d, Return(default), 0)

\* SetOnceProperty._handleMissingValue: the first branch calls the base method
\* and has no return statement of its own
SetOnceProperty_handleMissingValue(d, default, instance) ==
    IF default = NoDefault
    THEN LET base == StatefulPropertyBase_handleMissingValue(d, instance)
         IN  IF base.out.kind = "raise" THEN base ELSE Done(base.d, Return(None), 0)
    ELSE Done(d, Return(default), 0)

\* self._handleMissingValue(instance), resolved on the class of the property
HandleMissingValue(s, d, instance, count, ok) ==
    CASE s \in LazySlots -> LazyProperty_handleMissingValue(d, instance, count, ok)
      [] s \in OnceSlots -> SetOnceProperty_handleMissingValue(d, Default(s), instance)
      [] OTHER -> StatefulPropertyBase_handleMissingValue(d, instance)

\* StatefulPropertyBase.__get__ without the lookup in _values
StatefulPropertyBase__get__NoLookup(s, d, instance, count, ok) ==
    IF instance = NoInstance
    THEN Done(d, Return(Self(ClassOf(s))), 0)
    ELSE HandleMissingValue(s, d, instance, count, ok)

\* StatefulPropertyBase.__get__ without the test for instance is None: the
\* lookup of None finds no entry
StatefulPropertyBase__get__NoClassTest(s, d, instance, count, ok) ==
    IF instance # NoInstance /\ d[instance] # Missing
    THEN Done(d, Return(d[instance]), 0)
    ELSE HandleMissingValue(s, d, instance, count, ok)

\* StatefulPropertyBase.__get__
StatefulPropertyBase__get__(s, d, instance, count, ok) ==
    IF instance = NoInstance
    THEN Done(d, Return(Self(ClassOf(s))), 0)
    ELSE IF d[instance] # Missing
         THEN Done(d, Return(d[instance]), 0)
         ELSE HandleMissingValue(s, d, instance, count, ok)

\* TypedProperty.__set__ that stores before it checks
TypedProperty__set__StoreFirst(d, type, instance, value) ==
    IF IsInstance(value, type)
    THEN Done(SetItem(d, instance, value), Return(None), 0)
    ELSE Done(SetItem(d, instance, value), TypeMismatch(type, value), 0)

\* TypedProperty.__set__ without the isinstance test
TypedProperty__set__NoCheck(d, type, instance, value) ==
    Done(SetItem(d, instance, value), Return(None), 0)

\* TypedProperty.__set__ that keeps an entry that exists (setdefault)
TypedProperty__set__KeepOld(d, type, instance, value) ==
    IF IsInstance(value, type)
    THEN Done(IF d[instance] = Missing THEN SetItem(d, instance, value) ELSE d,
              Return(None), 0)
    ELSE Done(d, TypeMismatch(type, value), 0)

\* TypedProperty.__set__
TypedProperty__set__(d, type, instance, value) ==
    IF IsInstance(value, type)
    THEN Done(SetItem(d, instance, value), Return(None), 0)
    ELSE Done(d, TypeMismatch(type, value), 0)

\* TypedProperty.__delete__ that reports success and removes nothing
TypedProperty__delete__NoRemove(d, instance) ==
    IF d[instance] # Missing
    THEN Done(d, Return(None), 0)
    ELSE Done(d, NoSuchAttribute(instance), 0)

\* TypedProperty.__delete__ that swallows the KeyError (pop with a default)
TypedProperty__delete__Silent(d, instance) ==
    Done(DelItem(d, instance), Return(None), 0)

\* TypedProperty.__delete__
TypedProperty__delete__(d, instance) ==
    IF d[instance] # Missing
    THEN Done(DelItem(d, instance), Return(None), 0)
    ELSE Done(d, NoSuchAttribute(instance), 0)

\* SetOnceProperty.__set__ that stores whether or not an entry exists
SetOnceProperty__set__Overwrite(d, instance, value) ==
    Done(SetItem(d, instance, value), Return(None), 0)

\* SetOnceProperty.__set__
SetOnceProperty__set__(d, instance, value) ==
    IF d[instance] = Missing
    THEN Done(SetItem(d, instance, value), Return(None), 0)
    ELSE Done(d, AlreadySet(d[instance]), 0)

\* a LazyProperty given a __set__ that stores into _values
property__set__Stores(d, instance, value) ==
    Done(SetItem(d, instance, value), Return(None), 0)

\* property.__set__ as inherited: no setter was ever given to the builtin
property__set__(d, instance, value) == Done(d, NotWritable, 0)

\* property.__delete__ as inherited: no deleter was ever given to the builtin
property__delete__(d, instance) == Done(d, NotDeletable, 0)

\* obj.attr = value, resolved on the class of the property
SetAttr(s, d, instance, value) ==
    CASE s \in TypedSlots -> TypedProperty__set__(d, SlotType(s), instance, value)
      [] s \in OnceSlots -> SetOnceProperty__set__(d, instance, value)
      [] OTHER -> property__set__(d, instance, value)

\* del obj.attr, resolved on the class of the property
DelAttr(s, d, instance) ==
    CASE s \in TypedSlots -> TypedProperty__delete__(d, instance)
      [] OTHER -> property__delete__(d, instance)

----------------------------------------------------------------------------
(* The state machine *)

Op(op, s, instance, arg, old, out) ==
    [op |-> op, slot |-> s, inst |-> instance, arg |-> arg, old |-> old, out |-> out]

Init ==
    /\ alive = Instances
    /\ values = [s \in Slots |-> EmptyDict]
    /\ foocount = 0
    /\ calls = [i \in Instances |-> 0]
    /\ result = Op("init", "", NoInstance, None, None, Return(None))

\* obj.attr on a live instance
Get(s, i) ==
    /\ i \in alive
    /\ \E ok \in BOOLEAN :
          LET r == StatefulPropertyBase__get__(s, values[s], i, foocount, ok)
          IN  /\ foocount + r.made <= MaxCalls
              /\ values' = [values EXCEPT ![s] = r.d]
              /\ foocount' = foocount + r.made
              /\ calls' = [calls EXCEPT ![i] = @ + r.made]
              /\ result' = Op("get", s, i, None, values[s][i], r.out)
    /\ UNCHANGED alive

\* C.attr: the read on the class itself
GetOnClass(s) ==
    /\ LET r == StatefulPropertyBase__get__(s, values[s], NoInstance, foocount, TRUE)
       IN  /\ values' = [values EXCEPT ![s] = r.d]
           /\ foocount' = foocount + r.made
           /\ result' = Op("get", s, NoInstance, None, None, r.out)
    /\ UNCHANGED <<alive, calls>>

\* obj.attr = v with _values a class attribute, shared by every property
Set_SharedValues(s, i, v) ==
    /\ i \in alive
    /\ LET r == SetAttr(s, values[s], i, v)
       IN  /\ values' = [t \in Slots |-> r.d]
           /\ result' = Op("set", s, i, v, values[s][i], r.out)
    /\ UNCHANGED <<alive, foocount, calls>>

\* obj.attr = v on a live instance
Set(s, i, v) ==
    /\ i \in alive
    /\ LET r == SetAttr(s, values[s], i, v)
       IN  /\ values' = [values EXCEPT ![s] = r.d]
           /\ result' = Op("set", s, i, v, values[s][i], r.out)
    /\ UNCHANGED <<alive, foocount, calls>>

\* del obj.attr on a live instance
Delete(s, i) ==
    /\ i \in alive
    /\ LET r == DelAttr(s, values[s], i)
       IN  /\ values' = [values EXCEPT ![s] = r.d]
           /\ result' = Op("delete", s, i, None, values[s][i], r.out)
    /\ UNCHANGED <<alive, foocount, calls>>

\* an instance reclaimed while _values is keyed on something that outlives it
\* (a plain dict keyed on id(instance))
Destroy_KeepEntries(i) ==
    /\ i \in alive
    /\ alive' = alive \ {i}
    /\ result' = Op("destroy", "", i, None, None, Return(None))
    /\ UNCHANGED <<values, foocount, calls>>

\* the last reference to an instance is dropped: every WeakKeyDictionary
\* discards its entry for it
Destroy(i) ==
    /\ i \in alive
    /\ alive' = alive \ {i}
    /\ values' = [s \in Slots |-> DelItem(values[s], i)]
    /\ result' = Op("destroy", "", i, None, None, Return(None))
    /\ UNCHANGED <<foocount, calls>>

\* the operations on the properties in S
NextOn(S) ==
    \/ \E s \in S, i \in Instances : Get(s, i)
    \/ \E s \in S : GetOnClass(s)
    \/ \E s \in S, i \in Instances, v \in Values : Set(s, i, v)
    \/ \E s \in S, i \in Instances : Delete(s, i)
    \/ \E i \in Instances : Destroy(i)

Next == NextOn(Slots)
NextLazy == NextOn(LazySlots)
NextTyped == NextOn(TypedSlots)
NextOnce == NextOn(OnceSlots)

\* a program using every property of C
Spec == Init /\ [][Next]_vars
\* programs using only the LazyProperty, the TypedProperty, the SetOnceProperties
SpecLazy == Init /\ [][NextLazy]_vars
SpecTyped == Init /\ [][NextTyped]_vars
SpecOnce == Init /\ [][NextOnce]_vars

\* programs using the TypedProperty and the SetOnceProperty without default
WritableSlots == {"score", "name"}
NextWritable == NextOn(WritableSlots)
SpecWritable == Init /\ [][NextWritable]_vars

\* test_set_once_common: the same operation through the SetOnceProperty without
\* default and through the one with default, side by side; the record of the
\* operation holds the pair of the old entries and the pair of the outcomes.
Both == "name+title"

BothGet(i) ==
    /\ i \in alive
    /\ LET n == StatefulPropertyBase__get__("name", values["name"], i, foocount, TRUE)
           t == StatefulPropertyBase__get__("title", values["title"], i, foocount, TRUE)
       IN  /\ values' = [values EXCEPT !["name"] = n.d, !["title"] = t.d]
           /\ result' = Op("get", Both, i, None,
                           <<values["name"][i], values["title"][i]>>, <<n.out, t.out>>)
    /\ UNCHANGED <<alive, foocount, calls>>

BothSet(i, v) ==
    /\ i \in alive
    /\ LET n == SetAttr("name", values["name"], i, v)
           t == SetAttr("title", values["title"], i, v)
       IN  /\ values' = [values EXCEPT !["name"] = n.d, !["title"] = t.d]
           /\ result' = Op("set", Both, i, v,
                           <<values["name"][i], values["title"][i]>>, <<n.out, t.out>>)
    /\ UNCHANGED <<alive, foocount, calls>>

BothDelete(i) ==
    /\ i \in alive
    /\ LET n == DelAttr("name", values["name"], i)
           t == DelAttr("title", values["title"], i)
       IN  /\ values' = [values EXCEPT !["name"] = n.d, !["title"] = t.d]
           /\ result' = Op("delete", Both, i, None,
                           <<values["name"][i], values["title"][i]>>, <<n.out, t.out>>)
    /\ UNCHANGED <<alive, foocount, calls>>

NextBoth ==
    \/ \E i \in Instances : BothGet(i)
    \/ \E i \in Instances, v \in Values : BothSet(i, v)
    \/ \E i \in Instances : BothDelete(i)
    \/ \E i \in Instances : Destroy(i)

\* programs that use name and title alike
SpecBoth == Init /\ [][NextBoth]_vars

\* the program of the module docstring: one object, obj = C()
InitOne ==
    /\ alive = {"obj1"}
    /\ values = [s \in Slots |-> EmptyDict]
    /\ foocount = 0
    /\ calls = [i \in Instances |-> 0]
    /\ result = Op("init", "", NoInstance, None, None, Return(None))

\* one object using every property of C
SpecOne == InitOne /\ [][Next]_vars

----------------------------------------------------------------------------
(* Reading the record of the last operation *)

\* r records operation op through property s on instance i
IsOp(r, op, s, i) == r.op = op /\ r.slot = s /\ r.inst = i

Returned(r) == r.out.kind = "return"
Raised(r) == r.out.kind = "raise"

----------------------------------------------------------------------------
(* SetOnceProperty *)

\* C1, state part: a write through a SetOnceProperty that succeeded has stored
\* the value it was given.
C1_WriteStored ==
    (result.op = "set" /\ result.slot \in OnceSlots /\ Returned(result))
        => values[result.slot][result.inst] = result.arg

\* C1, step part: while instance i lives, an entry of a SetOnceProperty is
\* never changed or removed by any operation; a read of it returns the stored
\* value, a write attempt raises AlreadySet reporting the stored value, and a
\* delete attempt raises.
C1_Step(s, i) ==
    (values[s][i] # Missing /\ i \in alive') =>
        /\ values'[s][i] = values[s][i]
        /\ IsOp(result', "get", s, i) => result'.out = Return(values[s][i])
        /\ IsOp(result', "set", s, i) => result'.out = AlreadySet(values[s][i])
        /\ IsOp(result', "delete", s, i) => Raised(result')

\* C1: once one write of v to a SetOnceProperty of a live instance has
\* succeeded, every later read returns v and every later write attempt raises
\* AlreadySet reporting v, whatever reads, writes and deletes come in between:
\* the stored value is never overwritten or removed.
C1_SetOnceTerminal ==
    /\ []C1_WriteStored
    /\ [][\A s \in OnceSlots, i \in Instances : C1_Step(s, i)]_vars

\* C1 witness: a write attempt of another value was rejected with AlreadySet,
\* which reports the stored value, and the stored value is still there.
C1_Witness ==
    /\ result.op = "set" /\ result.slot \in OnceSlots
    /\ result.old # Missing /\ result.arg # result.old
    /\ result.out = AlreadySet(result.old)
    /\ values[result.slot][result.inst] = result.old

----------------------------------------------------------------------------
(* LazyProperty *)

\* C2 as stated: the maker is invoked at most once for each instance.
C2_MakerAtMostOnce == \A i \in Instances : calls[i] <= 1

\* C2 amended, step part for instance i: with a value cached for i no step
\* invokes the maker with i; a step invokes it at most once, and when that
\* invocation returns, its value is cached.
C2_Step(i) ==
    /\ values["greeting"][i] # Missing => calls'[i] = calls[i]
    /\ calls'[i] # calls[i] =>
          /\ calls'[i] = calls[i] + 1
          /\ IsOp(result', "get", "greeting", i)
          /\ Returned(result') => values'["greeting"][i] = result'.out.value

\* C2 amended: for every instance, once an invocation of the maker has returned
\* the value is cached and the maker is never invoked for that instance again,
\* so at most one invocation per instance returns; an invocation that raises
\* caches nothing, and only such invocations can be repeated.
C2_MakerReturnsAtMostOnce == [][\A i \in Instances : C2_Step(i)]_vars

\* C2 witness: a read hit the cache of an instance whose maker had raised once
\* and returned once.
C2_Witness ==
    /\ result.op = "get" /\ result.slot = "greeting" /\ result.inst \in Instances
    /\ result.old # Missing
    /\ calls[result.inst] = 2

\* C3, step part for instance i: a read that finds no cached value has the
\* outcome of the maker evaluated in the state of the read, and caches the value
\* the maker returns; a read that finds a cached value returns it; while i lives
\* the cached value never changes.
C3_Step(i) ==
    LET d == values["greeting"]
    IN  /\ (IsOp(result', "get", "greeting", i) /\ d[i] = Missing) =>
              /\ result'.out \in {Maker(foocount, TRUE), Maker(foocount, FALSE)}
              /\ Returned(result') => values'["greeting"][i] = result'.out.value
        /\ (IsOp(result', "get", "greeting", i) /\ d[i] # Missing) =>
              result'.out = Return(d[i])
        /\ (d[i] # Missing /\ i \in alive') => values'["greeting"][i] = d[i]

\* C3: the first read of a LazyProperty on an instance returns the maker's
\* result as evaluated at that moment, and every later read on that instance
\* returns that same value, although the maker would by then return another.
C3_FirstValueKept == [][\A i \in Instances : C3_Step(i)]_vars

\* C3 witness: a read returned the cached value while the maker, invoked now,
\* would return a different one.
C3_Witness ==
    /\ result.op = "get" /\ result.slot = "greeting" /\ result.inst \in Instances
    /\ result.old # Missing
    /\ result.out = Return(result.old)
    /\ Maker(foocount, TRUE) # Return(result.old)
    /\ foocount >= 2

----------------------------------------------------------------------------
(* TypedProperty *)

\* what a read through the TypedProperty gives for entry e of instance i
TypedRead(e, i) == IF e = Missing THEN NoSuchAttribute(i) ELSE Return(e)

\* C4, step part for instance i: a write of a value that is no instance of the
\* type raises TypeMismatch (required type, actual type) and changes no entry;
\* a read that directly follows a failed write gives what was there before it.
C4_Step(i) ==
    /\ (IsOp(result', "set", "score", i) /\ ~IsInstance(result'.arg, SlotType("score"))) =>
          /\ result'.out = TypeMismatch(SlotType("score"), result'.arg)
          /\ values' = values
    /\ (IsOp(result, "set", "score", i) /\ Raised(result)
            /\ IsOp(result', "get", "score", i)) =>
          result'.out = TypedRead(result.old, i)

\* C4: a write to a TypedProperty of a value that does not satisfy the type
\* fails with TypeMismatch and leaves the entry as it was: a following read
\* returns the value stored before, or fails with NoSuchAttribute if there was
\* none.
C4_FailedWriteNoChange == [][\A i \in Instances : C4_Step(i)]_vars

\* C4 witness: a write was rejected with a TypeError while a value was stored,
\* and that value is still stored.
C4_Witness ==
    /\ result.op = "set" /\ result.slot = "score"
    /\ result.out = TypeMismatch("int", result.arg)
    /\ result.old # Missing
    /\ values["score"][result.inst] = result.old

\* C5: every value stored in the TypedProperty is an instance of its type.
C5_StoredValuesTyped ==
    \A i \in Instances :
        values["score"][i] # Missing => IsInstance(values["score"][i], SlotType("score"))

\* C5 witness: a write has just been rejected, and the property holds a value
\* of a subclass of its type.
C5_Witness ==
    /\ result.op = "set" /\ result.slot = "score" /\ Raised(result)
    /\ \E i \in Instances : values["score"][i] # Missing /\ values["score"][i].type = "bool"

\* C6, step part for instance i: a write of an instance of the type returns
\* and stores the value, whatever was stored; a read that directly follows it
\* returns the written value.
C6_Step(i) ==
    /\ (IsOp(result', "set", "score", i) /\ IsInstance(result'.arg, SlotType("score"))) =>
          /\ result'.out = Return(None)
          /\ values'["score"][i] = result'.arg
    /\ (IsOp(result, "set", "score", i) /\ Returned(result)
            /\ IsOp(result', "get", "score", i)) =>
          result'.out = Return(result.arg)

\* C6: a write to a TypedProperty of a value v that satisfies the type succeeds
\* whether or not a value is stored, and a read right after it returns v.
C6_WriteThenRead == [][\A i \in Instances : C6_Step(i)]_vars

\* C6 witness: a write succeeded over a different stored value.
C6_Witness ==
    /\ result.op = "set" /\ result.slot = "score" /\ Returned(result)
    /\ result.old # Missing /\ result.old # result.arg
    /\ values["score"][result.inst] = result.arg

\* C7, step part for instance i: a delete of an entry that exists returns and
\* removes it; while there is no entry every read raises NoSuchAttribute and
\* creates none; only a successful write creates the entry, and with an entry
\* stored a read returns it.
C7_Step(i) ==
    LET d == values["score"]
    IN  /\ (IsOp(result', "delete", "score", i) /\ d[i] # Missing) =>
              /\ result'.out = Return(None)
              /\ values'["score"][i] = Missing
        /\ (IsOp(result', "get", "score", i) /\ d[i] = Missing) =>
              /\ result'.out = NoSuchAttribute(i)
              /\ values'["score"][i] = Missing
        /\ (d[i] = Missing /\ values'["score"][i] # Missing) =>
              /\ IsOp(result', "set", "score", i)
              /\ Returned(result')
        /\ (IsOp(result', "get", "score", i) /\ d[i] # Missing) =>
              result'.out = Return(d[i])

\* C7: deleting an entry of a TypedProperty that exists succeeds and removes it;
\* every read on that instance then fails with NoSuchAttribute until the next
\* successful write, after which reads succeed again.
C7_EraseThenUnset == [][\A i \in Instances : C7_Step(i)]_vars

\* C7 witness: a delete of a stored entry has returned and the entry is gone.
C7_Witness ==
    /\ result.op = "delete" /\ result.slot = "score" /\ Returned(result)
    /\ result.old # Missing
    /\ values["score"][result.inst] = Missing

\* C8, step part for instance i: a delete with no entry raises NoSuchAttribute
\* and changes no entry; a delete that directly follows a successful delete
\* on the same instance fails.
C8_Step(i) ==
    /\ (IsOp(result', "delete", "score", i) /\ values["score"][i] = Missing) =>
          /\ result'.out = NoSuchAttribute(i)
          /\ values' = values
    /\ (IsOp(result, "delete", "score", i) /\ Returned(result)
            /\ IsOp(result', "delete", "score", i)) =>
          result'.out = NoSuchAttribute(i)

\* C8: a delete on an instance with nothing stored in the TypedProperty fails
\* with NoSuchAttribute and leaves it unchanged; of two deletes in a row after
\* a write the first succeeds and the second fails.
C8_EraseMissingFails == [][\A i \in Instances : C8_Step(i)]_vars

\* C8 witness: a delete found no entry and raised NoSuchAttribute.
C8_Witness ==
    /\ result.op = "delete" /\ result.slot = "score"
    /\ result.inst \in Instances
    /\ result.old = Missing
    /\ result.out = NoSuchAttribute(result.inst)

----------------------------------------------------------------------------
(* SetOnceProperty: reads before the first write *)

\* C9, step part for instance i: with no entry, a read of title returns the
\* default and changes no entry, and a write returns and stores its value; in
\* particular the write that directly follows a read of the default succeeds.
C9_Step(i) ==
    LET d == values["title"]
    IN  /\ (IsOp(result', "get", "title", i) /\ d[i] = Missing) =>
              /\ result'.out = Return(Default("title"))
              /\ values' = values
        /\ (IsOp(result', "set", "title", i) /\ d[i] = Missing) =>
              /\ result'.out = Return(None)
              /\ values'["title"][i] = result'.arg
        /\ (IsOp(result, "get", "title", i) /\ result.old = Missing
                /\ IsOp(result', "set", "title", i)) =>
              (Returned(result') /\ values'["title"][i] = result'.arg)

\* C9: with a default d, reads before the first write return d and create no
\* entry, so the first write after them still succeeds and stores its value.
C9_DefaultReadsKeepWritable == [][\A i \in Instances : C9_Step(i)]_vars

\* C9 witness: a read returned the default and the instance still has no entry.
C9_Witness ==
    /\ result.op = "get" /\ result.slot = "title" /\ result.inst \in Instances
    /\ result.out = Return(Default("title"))
    /\ values["title"][result.inst] = Missing

\* C10, step part for instance i: with no entry, a read of name raises
\* NoSuchAttribute and changes no entry, and a write returns and stores its
\* value; in particular the write that directly follows a failed read succeeds.
C10_Step(i) ==
    LET d == values["name"]
    IN  /\ (IsOp(result', "get", "name", i) /\ d[i] = Missing) =>
              /\ result'.out = NoSuchAttribute(i)
              /\ values' = values
        /\ (IsOp(result', "set", "name", i) /\ d[i] = Missing) =>
              /\ result'.out = Return(None)
              /\ values'["name"][i] = result'.arg
        /\ (IsOp(result, "get", "name", i) /\ Raised(result)
                /\ IsOp(result', "set", "name", i)) =>
              (Returned(result') /\ values'["name"][i] = result'.arg)

\* C10: with no default, every read before the first successful write fails
\* with NoSuchAttribute (no value is returned), and the failed reads do not
\* prevent the first write from succeeding.
C10_NoDefaultReadsFail == [][\A i \in Instances : C10_Step(i)]_vars

\* C10 witness: a read of name raised NoSuchAttribute and the instance still
\* has no entry.
C10_Witness ==
    /\ result.op = "get" /\ result.slot = "name" /\ result.inst \in Instances
    /\ result.out = NoSuchAttribute(result.inst)
    /\ values["name"][result.inst] = Missing

----------------------------------------------------------------------------
(* LazyProperty: write attempts *)

\* C11, step part for instance i: a write attempt through the LazyProperty
\* raises the AttributeError of a property without setter, stores nothing,
\* discards nothing and does not invoke the maker.
C11_Step(i) ==
    IsOp(result', "set", "greeting", i) =>
        /\ result'.out = NotWritable
        /\ values' = values
        /\ foocount' = foocount
        /\ calls' = calls

\* C11: a write attempt on a LazyProperty always fails with the read-only
\* attribute error, before the first read and after the value is cached, and
\* leaves the property unchanged: the written value is not stored, the maker is
\* not invoked and a cached value is not discarded.
C11_LazyNotWritable == [][\A i \in Instances : C11_Step(i)]_vars

\* C11 witness: a write attempt was rejected while a value was cached, and the
\* cached value, which is not the written one, is still there.
C11_Witness ==
    /\ result.op = "set" /\ result.slot = "greeting"
    /\ result.out = NotWritable
    /\ result.old # Missing /\ result.old # result.arg
    /\ values["greeting"][result.inst] = result.old

----------------------------------------------------------------------------
(* One entry for each instance *)

\* r records a read, write or delete on instance i
IsAccess(r, i) == r.inst = i /\ r.op \in {"get", "set", "delete"}

\* C12, frame part for distinct instances i and j: a read, write or delete on
\* i changes the entry of j in no property.
C12_Frame(i, j) ==
    IsAccess(result', i) => \A s \in Slots : values'[s][j] = values[s][j]

\* C12, outcome part for instance j: the outcome of an operation on j is
\* decided by the entry of j and the argument alone, whatever is stored for
\* other instances.
C12_Outcome(s, j) ==
    LET e == values[s][j]
    IN  /\ (IsOp(result', "get", s, j) /\ e # Missing) => result'.out = Return(e)
        /\ (IsOp(result', "get", s, j) /\ e = Missing /\ s \in TypedSlots) =>
              result'.out = NoSuchAttribute(j)
        /\ (IsOp(result', "get", s, j) /\ e = Missing /\ s \in OnceSlots) =>
              result'.out = IF Default(s) = NoDefault THEN NoSuchAttribute(j)
                            ELSE Return(Default(s))
        /\ (IsOp(result', "set", s, j) /\ s \in OnceSlots) =>
              /\ Returned(result') <=> e = Missing
              /\ values'[s][j] = IF e = Missing THEN result'.arg ELSE e
        /\ (IsOp(result', "set", s, j) /\ s \in TypedSlots) =>
              /\ Returned(result') <=> IsInstance(result'.arg, SlotType(s))
              /\ values'[s][j] = IF Returned(result') THEN result'.arg ELSE e
        /\ (IsOp(result', "delete", s, j) /\ s \in TypedSlots) =>
              /\ Returned(result') <=> e # Missing
              /\ values'[s][j] = Missing

----------------------------------------------------------------------------
(* Weak association *)

\* C13, state part: every entry of every property belongs to a live instance.
C13_OnlyLive ==
    \A s \in Slots, i \in Instances : values[s][i] # Missing => i \in alive

\* C13, step part for instance i: when i is reclaimed, which no entry
\* prevents, no property keeps an entry for it and the entries of the other
\* instances stay.
C13_Step(i) ==
    (i \in alive /\ i \notin alive') =>
        /\ \A s \in Slots : values'[s][i] = Missing
        /\ \A s \in Slots, j \in Instances \ {i} : values'[s][j] = values[s][j]

----------------------------------------------------------------------------
(* Reads on the class *)

\* C14, step part for property s: a read of s on the class returns the
\* property object, an instance of its class, and changes nothing: no entry
\* is created and the maker is not invoked.
C14_Step(s) ==
    IsOp(result', "get", s, NoInstance) =>
        /\ result'.out = Return(Self(ClassOf(s)))
        /\ values' = values
        /\ foocount' = foocount
        /\ calls' = calls

\* C14: for all three kinds of property, a read without an instance (on the
\* declaring class) returns the property object itself in every state, and
\* never invokes the maker, returns a default, raises or creates an entry.
C14_ClassReadReturnsSelf == [][\A s \in Slots : C14_Step(s)]_vars

\* C14 witness: the LazyProperty was read on the class before any read on the
\* instance, and the maker has not been invoked.
C14_Witness ==
    /\ IsOp(result, "get", "greeting", NoInstance)
    /\ result.out = Return(Self("LazyProperty"))
    /\ \E i \in alive : values["greeting"][i] = Missing /\ values["name"][i] # Missing
    /\ foocount = 0

----------------------------------------------------------------------------
(* Entries: how they come and what leaves them alone *)

\* C15, step part for instance i: a read through the TypedProperty that finds
\* no entry raises NoSuchAttribute and changes no entry; this is so for a read
\* that directly follows a rejected write on an instance never written.
C15_Step(i) ==
    /\ (IsOp(result', "get", "score", i) /\ values["score"][i] = Missing) =>
          /\ result'.out = NoSuchAttribute(i)
          /\ values' = values
    /\ (IsOp(result, "set", "score", i) /\ Raised(result) /\ result.old = Missing
            /\ IsOp(result', "get", "score", i)) =>
          /\ result'.out = NoSuchAttribute(i)
          /\ values'["score"][i] = Missing

\* C15: a read of a TypedProperty on an instance with no entry (never written,
\* or only invalid writes attempted) fails with NoSuchAttribute, and the failed
\* read creates no entry.
C15_TypedReadUnset == [][\A i \in Instances : C15_Step(i)]_vars

\* C15 witness: a read of the TypedProperty raised NoSuchAttribute and there is
\* still no entry for the instance.
C15_Witness ==
    /\ result.op = "get" /\ result.slot = "score" /\ result.inst \in Instances
    /\ result.out = NoSuchAttribute(result.inst)
    /\ result.old = Missing
    /\ values["score"][result.inst] = Missing

\* C16, step part for property s and instance i: an entry appears only by a
\* write that returned (TypedProperty, SetOnceProperty) or by a read that
\* returned (LazyProperty); a read through a TypedProperty or SetOnceProperty,
\* a write that raised and a delete that raised change no entry.
C16_Step(s, i) ==
    /\ (values[s][i] = Missing /\ values'[s][i] # Missing) =>
          IF s \in LazySlots
          THEN IsOp(result', "get", s, i) /\ Returned(result')
          ELSE IsOp(result', "set", s, i) /\ Returned(result')
    /\ (IsOp(result', "get", s, i) /\ s \notin LazySlots) => values' = values
    /\ (IsOp(result', "set", s, i) /\ Raised(result')) => values' = values
    /\ (IsOp(result', "delete", s, i) /\ Raised(result')) => values' = values

\* C16: for a TypedProperty and a SetOnceProperty an entry is created only by
\* a successful write, so reads (successful, returning the default, or
\* failing), failed writes and failed deletes leave the mapping unchanged; for
\* a LazyProperty an entry is created only by a read.
C16_EntryLifecycle == [][\A s \in Slots, i \in Instances : C16_Step(s, i)]_vars

\* C16 witness: a delete through the SetOnceProperty failed on an instance that
\* never wrote it, while the LazyProperty and the TypedProperty hold the
\* entries a read and a write created.
C16_Witness ==
    /\ result.op = "delete" /\ result.slot = "name" /\ Raised(result)
    /\ result.inst \in Instances
    /\ values["name"][result.inst] = Missing
    /\ values["greeting"][result.inst] # Missing
    /\ values["score"][result.inst] # Missing

----------------------------------------------------------------------------
(* LazyProperty: a maker that raises *)

\* C18, step part for instance i: a read whose maker raises passes the maker's
\* exception on and changes no entry; the read that directly follows a failed
\* read on i invokes the maker again.
C18_Step(i) ==
    /\ (IsOp(result', "get", "greeting", i) /\ Raised(result')) =>
          /\ values["greeting"][i] = Missing
          /\ result'.out = MakerError
          /\ calls'[i] = calls[i] + 1
          /\ values' = values
    /\ (IsOp(result, "get", "greeting", i) /\ Raised(result)
            /\ IsOp(result', "get", "greeting", i)) =>
          calls'[i] = calls[i] + 1

\* C18: if the maker fails during a read of a LazyProperty, the error
\* propagates out of the read and no entry is stored, so the property is
\* unchanged and the next read on that instance invokes the maker again.
C18_MakerFailure == [][\A i \in Instances : C18_Step(i)]_vars

\* C18 witness: the maker has raised in two reads on the same instance, and
\* the instance has no entry.
C18_Witness ==
    /\ result.op = "get" /\ result.slot = "greeting" /\ result.inst \in Instances
    /\ result.out = MakerError
    /\ calls[result.inst] = 2
    /\ values["greeting"][result.inst] = Missing

----------------------------------------------------------------------------
(* One dictionary for each property *)

\* C19, frame part for property s: a read, write or delete through s changes
\* the dictionary of no other property.
C19_Frame(s) ==
    (result'.slot = s /\ result'.op \in {"get", "set", "delete"}) =>
        \A t \in Slots \ {s} : values'[t] = values[t]

\* C19: each property has its own dictionary: for one instance, a read, write
\* or delete through one property changes neither the entry nor the read
\* result nor the write outcome of another property (a write of name does not
\* use up the single write of title).
C19_SlotsIndependent ==
    [][/\ \A s \in Slots : C19_Frame(s)
       /\ \A s \in Slots, i \in Instances : C12_Outcome(s, i)]_vars

\* C19 witness: on an instance whose name was already written, the first
\* write of title succeeded with another value, and name kept its value.
C19_Witness ==
    /\ result.op = "set" /\ result.slot = "title" /\ Returned(result)
    /\ result.inst \in Instances
    /\ values["name"][result.inst] # Missing
    /\ values["name"][result.inst] # result.arg
    /\ values["title"][result.inst] = result.arg

----------------------------------------------------------------------------
(* SetOnceProperty with and without default, side by side *)

\* C17, step part for instance i: once name holds an entry for i, every
\* operation applied to name and to title has the same outcome on both and
\* leaves the same entry in both; a read returns the stored value on both, so
\* the default is returned only if it is the value that was written.
C17_Step(i) ==
    (values["name"][i] # Missing /\ result'.slot = Both /\ result'.inst = i) =>
        /\ result'.out[1] = result'.out[2]
        /\ values'["name"][i] = values'["title"][i]
        /\ values'["title"][i] = values["name"][i]
        /\ result'.op = "get" => result'.out[2] = Return(values["name"][i])
        /\ result'.op = "set" => result'.out[2] = AlreadySet(values["name"][i])
        /\ (result'.op = "get" /\ values["name"][i] # Default("title")) =>
              result'.out[2] # Return(Default("title"))

\* C17: after the first successful write on an instance, a SetOnceProperty
\* with a default behaves exactly like one without: under the same sequence
\* of reads and write attempts both give the same read results and the same
\* AlreadySet failures, and the default is never returned again.
C17_DefaultEquivalentAfterWrite == [][\A i \in Instances : C17_Step(i)]_vars

\* C17 witness: after a write of a value other than the default, a read gave
\* that value through both properties.
C17_Witness ==
    /\ result.slot = Both /\ result.op = "get"
    /\ result.old[1] # Missing /\ result.old[1] # Default("title")
    /\ result.out = <<Return(result.old[1]), Return(result.old[1])>>

====
